---- MODULE Spec2Model ----
(***************************************************************************)
(* Coach-Chess: the move-search engine (services/engine.ts) over a model   *)
(* of the chess.js rules engine it drives, and the controller that calls   *)
(* the engine from a deferred callback.                                    *)
(*                                                                         *)
(* A square is an index 0..63 in the row-major order of game.board():      *)
(* row 0 is rank 8, column 0 is file a, so a8 = 0 and h1 = 63.             *)
(***************************************************************************)
EXTENDS Integers, Sequences, FiniteSets, TLC

VARIABLES
    board,          \* game: the 64 squares of the Chess instance
    turn,           \* game: side to move, "w" or "b"
    history,        \* game: chess.js undo stack of applied moves
    pc,             \* position of the running call
    difficulty,     \* getBestMove: the difficulty argument
    possibleMoves,  \* getBestMove: const possibleMoves (shuffled in place)
    idx,            \* getBestMove: position of the for-of loop, 1-based
    bestMove,       \* getBestMove: let bestMove
    bestValue,      \* getBestMove: let bestValue
    stack,          \* activation records of minimax, innermost first
    ret,            \* value returned by the last finished minimax call
    result,         \* value returned by getBestMove
    board0,         \* the squares at call time
    turn0,          \* the side to move at call time
    nApplied,       \* number of game.move calls made by the engine
    nCalls,         \* number of minimax calls made by the engine
    nPruned,        \* number of moves a cutoff has left unsearched
    rootScores,     \* the boardValue of each root move searched so far
    scores,         \* the scores evaluateBoard has returned for the board
    games,          \* controller: the Chess instances created so far
    game,           \* controller: let game, a position in games
    isAiThinking,   \* controller: let isAiThinking
    selectedSquare, \* controller: let selectedSquare
    timers,         \* controller: setTimeout callbacks not yet run
    aiMoves         \* the moves the deferred callbacks have made

vars == <<board, turn, history, pc, difficulty, possibleMoves, idx, bestMove,
          bestValue, stack, ret, result, board0, turn0, nApplied, nCalls,
          nPruned, rootScores, scores, games, game, isAiThinking,
          selectedSquare, timers, aiMoves>>

gameVars == <<board, turn, history>>
rootVars == <<difficulty, possibleMoves, idx, bestMove, bestValue>>
ghostVars == <<board0, turn0, nApplied, nCalls, nPruned>>
logVars == <<rootScores, scores>>
uiVars == <<games, game, isAiThinking, selectedSquare, timers, aiMoves>>

(***************************************************************************)
(* types.ts                                                                *)
(***************************************************************************)
PieceColor == {"w", "b"}
PieceType == {"p", "n", "b", "r", "q", "k"}
EASY == 1
MEDIUM == 2
HARD == 3
Difficulty == {EASY, MEDIUM, HARD}

\* null and undefined, in the shape of a move token so that they compare with one
Null == [from |-> -1, to |-> -1, promotion |-> "null"]
Undefined == [from |-> -1, to |-> -1, promotion |-> "undefined"]
Infinity == 1000000000

(***************************************************************************)
(* engine.ts: evaluation tables                                            *)
(***************************************************************************)
\* the table with the queen's value mistyped
PIECE_VALUES_QueenMistyped ==
    [t \in PieceType |->
        CASE t = "p" -> 100
          [] t = "n" -> 320
          [] t = "b" -> 330
          [] t = "r" -> 500
          [] t = "q" -> 90000
          [] t = "k" -> 20000]

PIECE_VALUES ==
    [t \in PieceType |->
        CASE t = "p" -> 100
          [] t = "n" -> 320
          [] t = "b" -> 330
          [] t = "r" -> 500
          [] t = "q" -> 900
          [] t = "k" -> 20000]

PAWN_PST == <<
     0,  0,  0,  0,  0,  0,  0,  0,
    50, 50, 50, 50, 50, 50, 50, 50,
    10, 10, 20, 30, 30, 20, 10, 10,
     5,  5, 10, 25, 25, 10,  5,  5,
     0,  0,  0, 20, 20,  0,  0,  0,
     5, -5,-10,  0,  0,-10, -5,  5,
     5, 10, 10,-20,-20, 10, 10,  5,
     0,  0,  0,  0,  0,  0,  0,  0 >>

KNIGHT_PST == <<
    -50,-40,-30,-30,-30,-30,-40,-50,
    -40,-20,  0,  0,  0,  0,-20,-40,
    -30,  0, 10, 15, 15, 10,  0,-30,
    -30,  5, 15, 20, 20, 15,  5,-30,
    -30,  0, 15, 20, 20, 15,  0,-30,
    -30,  5, 10, 15, 15, 10,  5,-30,
    -40,-20,  0,  5,  5,  0,-20,-40,
    -50,-40,-30,-30,-30,-30,-40,-50 >>

BISHOP_PST == <<
    -20,-10,-10,-10,-10,-10,-10,-20,
    -10,  0,  0,  0,  0,  0,  0,-10,
    -10,  0,  5, 10, 10,  5,  0,-10,
    -10,  5,  5, 10, 10,  5,  5,-10,
    -10,  0, 10, 10, 10, 10,  0,-10,
    -10, 10, 10, 10, 10, 10, 10,-10,
    -10,  5,  0,  0,  0,  0,  5,-10,
    -20,-10,-10,-10,-10,-10,-10,-20 >>

\* PSTS has the keys p, n and b only
PSTS == [t \in {"p", "n", "b"} |->
            CASE t = "p" -> PAWN_PST
              [] t = "n" -> KNIGHT_PST
              [] t = "b" -> BISHOP_PST]

(***************************************************************************)
(* The board of the rules engine                                           *)
(***************************************************************************)
Squares == 0..63
Empty == [type |-> "-", color |-> "-"]
Piece(t, c) == [type |-> t, color |-> c]
EmptyBoard == [s \in Squares |-> Empty]

Row(s) == s \div 8
Col(s) == s % 8
Sq(i, j) == i * 8 + j
Other(c) == IF c = "w" THEN "b" ELSE "w"
Abs(x) == IF x < 0 THEN -x ELSE x
Max(a, b) == IF a >= b THEN a ELSE b
Min(a, b) == IF a <= b THEN a ELSE b
Sign(x) == IF x > 0 THEN 1 ELSE IF x < 0 THEN -1 ELSE 0

(***************************************************************************)
(* engine.ts: evaluateBoard                                                *)
(***************************************************************************)
\* the index used for a white piece on every square: the mirroring is lost
PstIndexNoMirror(color, i, j) == i * 8 + j

\* line 69: the table index of a piece on row i, column j
PstIndex(color, i, j) == IF color = "w" THEN i * 8 + j ELSE (7 - i) * 8 + j

\* the contribution of a square with the sign of line 74 lost
SquareValueUnsigned(b, i, j) ==
    LET piece == b[Sq(i, j)] IN
    IF piece = Empty THEN 0
    ELSE LET value == PIECE_VALUES[piece.type]
             pstValue == IF piece.type \in DOMAIN PSTS
                         THEN PSTS[piece.type][PstIndex(piece.color, i, j) + 1]
                         ELSE 0
         IN value + pstValue

\* lines 60-75: the signed contribution of square (i, j)
SquareValue(b, i, j) ==
    LET piece == b[Sq(i, j)] IN
    IF piece = Empty THEN 0
    ELSE LET value == PIECE_VALUES[piece.type]
             pstValue == IF piece.type \in DOMAIN PSTS
                         THEN PSTS[piece.type][PstIndex(piece.color, i, j) + 1]
                         ELSE 0
             absoluteValue == value + pstValue
         IN IF piece.color = "w" THEN absoluteValue ELSE -absoluteValue

RECURSIVE SumSquares(_, _)
SumSquares(b, n) ==
    IF n = 0 THEN 0
    ELSE SumSquares(b, n - 1) + SquareValue(b, Row(n - 1), Col(n - 1))

\* lines 54-79: the two nested loops visit the squares in index order
evaluateBoard(b) == SumSquares(b, 64)

(***************************************************************************)
(* chess.js, as engine.ts uses it: moves(), move(), undo(), isGameOver().  *)
(* The positions handed to the engine have no castling rights, no          *)
(* en-passant square and no pawn on its starting rank, a half-move clock   *)
(* far from the fifty-move limit and no repeated position behind them, so  *)
(* none of these rules can apply inside a search of a few plies.           *)
(* A move token is the move's origin, destination and promotion piece      *)
(* (chess.js prints the same information as a SAN string).                 *)
(***************************************************************************)
NoPromotion == "-"
Move(f, t, p) == [from |-> f, to |-> t, promotion |-> p]

\* every square strictly between f and t on a common line is empty
PathClear(b, f, t) ==
    LET dr == Sign(Row(t) - Row(f))
        dc == Sign(Col(t) - Col(f))
        n == Max(Abs(Row(t) - Row(f)), Abs(Col(t) - Col(f)))
    IN \A k \in 1..(n - 1) : b[Sq(Row(f) + k * dr, Col(f) + k * dc)] = Empty

\* the piece on f attacks square t
Attacks(b, f, t) ==
    LET piece == b[f]
        dr == Row(t) - Row(f)
        dc == Col(t) - Col(f)
    IN /\ f # t
       /\ CASE piece.type = "p" ->
                 /\ Abs(dc) = 1
                 /\ dr = (IF piece.color = "w" THEN -1 ELSE 1)
            [] piece.type = "n" ->
                 {Abs(dr), Abs(dc)} = {1, 2}
            [] piece.type = "k" ->
                 Max(Abs(dr), Abs(dc)) = 1
            [] piece.type = "r" ->
                 (dr = 0 \/ dc = 0) /\ PathClear(b, f, t)
            [] piece.type = "b" ->
                 Abs(dr) = Abs(dc) /\ PathClear(b, f, t)
            [] piece.type = "q" ->
                 (dr = 0 \/ dc = 0 \/ Abs(dr) = Abs(dc)) /\ PathClear(b, f, t)
            [] OTHER -> FALSE

\* some piece of colour c attacks square t
Attacked(b, t, c) == \E f \in Squares : b[f].color = c /\ Attacks(b, f, t)

InCheck(b, c) ==
    \E k \in Squares : b[k] = Piece("k", c) /\ Attacked(b, k, Other(c))

\* the destinations of the piece on f, the own king's safety not yet considered
Targets(b, f) ==
    LET piece == b[f]
        fwd == IF piece.color = "w" THEN -1 ELSE 1
    IN IF piece.type = "p"
       THEN {t \in Squares :
                /\ Row(t) = Row(f) + fwd
                /\ \/ Col(t) = Col(f) /\ b[t] = Empty
                   \/ Abs(Col(t) - Col(f)) = 1 /\ b[t].color = Other(piece.color)}
       ELSE {t \in Squares : Attacks(b, f, t) /\ b[t].color # piece.color}

Promotions(b, f, t) ==
    IF b[f].type = "p" /\ Row(t) \in {0, 7}
    THEN {"q", "r", "b", "n"}
    ELSE {NoPromotion}

\* the squares after game.move(m)
ApplyMove(b, m) ==
    LET moved == b[m.from]
        placed == IF m.promotion = NoPromotion THEN moved
                  ELSE Piece(m.promotion, moved.color)
    IN [b EXCEPT ![m.from] = Empty, ![m.to] = placed]

\* the undo record game.move(m) pushes
HistoryEntry(b, m) == [move |-> m, piece |-> b[m.from], captured |-> b[m.to]]

\* the squares after game.undo() takes the record h back
UndoMove(b, h) ==
    [b EXCEPT ![h.move.to] = h.captured, ![h.move.from] = h.piece]

MoveSet(b, c) ==
    {m \in UNION {UNION {{Move(f, t, p) : p \in Promotions(b, f, t)} :
                         t \in Targets(b, f)} :
                  f \in {s \in Squares : b[s].color = c}} :
        ~InCheck(ApplyMove(b, m), c)}

PromotionRank(p) ==
    CASE p = NoPromotion -> 0 [] p = "q" -> 1 [] p = "r" -> 2
      [] p = "b" -> 3 [] p = "n" -> 4
MoveKey(m) == m.from * 320 + m.to * 5 + PromotionRank(m.promotion)

RECURSIVE SortMoves(_)
SortMoves(S) ==
    IF S = {} THEN <<>>
    ELSE LET first == CHOOSE m \in S : \A o \in S : MoveKey(m) <= MoveKey(o)
         IN <<first>> \o SortMoves(S \ {first})

\* game.moves(): the legal moves of the side to move, in generation order
LegalMoves(b, c) == SortMoves(MoveSet(b, c))

\* chess.js isInsufficientMaterial
InsufficientMaterial(b) ==
    LET occupied == {s \in Squares : b[s] # Empty}
        bishops == {s \in occupied : b[s].type = "b"}
        knights == {s \in occupied : b[s].type = "n"}
        numPieces == Cardinality(occupied)
    IN \/ numPieces = 2
       \/ numPieces = 3
            /\ (Cardinality(bishops) = 1 \/ Cardinality(knights) = 1)
       \/ numPieces = Cardinality(bishops) + 2
            /\ \A s, t \in bishops :
                   (Row(s) + Col(s)) % 2 = (Row(t) + Col(t)) % 2

\* chess.js isCheckmate and isStalemate: no legal move, in check or not
IsCheckmate(b, c) == InCheck(b, c) /\ MoveSet(b, c) = {}
IsStalemate(b, c) == ~InCheck(b, c) /\ MoveSet(b, c) = {}

\* game.isGameOver(): checkmate, stalemate or draw
IsGameOver(b, c) ==
    IsCheckmate(b, c) \/ IsStalemate(b, c) \/ InsufficientMaterial(b)

\* a position from a list of <<square, type, colour>> placements
Place(ps) ==
    [s \in Squares |->
        IF \E k \in DOMAIN ps : ps[k][1] = s
        THEN LET k == CHOOSE k \in DOMAIN ps : ps[k][1] = s
             IN Piece(ps[k][2], ps[k][3])
        ELSE Empty]

(***************************************************************************)
(* The positions the engine is called on.  At(file, rank) names a square   *)
(* as on the board: At(1, 8) is a8, At(8, 1) is h1.                        *)
(***************************************************************************)
At(file, rank) == (8 - rank) * 8 + (file - 1)

\* swap the colour of every piece and flip the board vertically
Mirror(b) ==
    [s \in Squares |->
        LET piece == b[Sq(7 - Row(s), Col(s))]
        IN IF piece = Empty THEN Empty ELSE Piece(piece.type, Other(piece.color))]

\* Black mates with g3-g2 or wins a pawn with Kxg4
MateOrPawn ==
    Place(<< <<At(8, 1), "k", "w">>, <<At(6, 1), "n", "w">>,
             <<At(7, 4), "p", "w">>, <<At(8, 3), "k", "b">>,
             <<At(6, 2), "p", "b">>, <<At(7, 3), "p", "b">> >>)

\* the white king is stalemated by the queen on g3
Stalemated ==
    Place(<< <<At(8, 1), "k", "w">>, <<At(7, 3), "q", "b">>,
             <<At(1, 8), "k", "b">> >>)

\* two bare kings: drawn, and yet each king has moves
BareKings ==
    Place(<< <<At(1, 1), "k", "w">>, <<At(1, 8), "k", "b">> >>)

\* the black king cannot move: the pawn on c2 promotes in four ways
Promotion ==
    Place(<< <<At(6, 7), "k", "w">>, <<At(7, 6), "p", "w">>,
             <<At(8, 8), "k", "b">>, <<At(3, 2), "p", "b">> >>)

\* the rook on b1 shuts the black king in; it may be chased or bypassed
RookBox ==
    Place(<< <<At(4, 1), "k", "w">>, <<At(2, 1), "r", "w">>,
             <<At(1, 8), "k", "b">>, <<At(1, 6), "p", "b">> >>)

\* after b3-b2+ the only reply Kxb2 leaves king and same-coloured bishops
TwoBishops ==
    Place(<< <<At(1, 1), "k", "w">>, <<At(1, 2), "b", "w">>,
             <<At(2, 1), "b", "w">>, <<At(8, 8), "k", "b">>,
             <<At(2, 3), "p", "b">> >>)

\* the most material one side can own, nine queens among it, against a bare
\* king whose only move is Ka8-b8
FullMaterial ==
    Place(<< <<At(1, 8), "k", "b">>, <<At(7, 7), "q", "w">>,
             <<At(3, 3), "b", "w">>, <<At(4, 3), "n", "w">>,
             <<At(5, 3), "k", "w">>,
             <<At(3, 2), "q", "w">>, <<At(4, 2), "q", "w">>,
             <<At(5, 2), "q", "w">>, <<At(6, 2), "b", "w">>,
             <<At(7, 2), "r", "w">>, <<At(8, 2), "r", "w">>,
             <<At(3, 1), "q", "w">>, <<At(4, 1), "q", "w">>,
             <<At(5, 1), "q", "w">>, <<At(6, 1), "q", "w">>,
             <<At(7, 1), "q", "w">>, <<At(8, 1), "n", "w">> >>)

Positions == <<
    [board |-> MateOrPawn, turn |-> "b"],
    [board |-> Mirror(MateOrPawn), turn |-> "w"],
    [board |-> ApplyMove(MateOrPawn, Move(At(7, 3), At(7, 2), NoPromotion)),
     turn |-> "w"],
    [board |-> Stalemated, turn |-> "w"],
    [board |-> BareKings, turn |-> "b"],
    [board |-> RookBox, turn |-> "b"],
    [board |-> TwoBishops, turn |-> "b"],
    [board |-> Promotion, turn |-> "b"],
    [board |-> Mirror(RookBox), turn |-> "w"] >>

\* Init takes the first NumPositions positions of the list
NumPositions == 8

(***************************************************************************)
(* engine.ts: minimax, one activation record per call                      *)
(***************************************************************************)
Frame(depth, alpha, beta, isMaximizingPlayer) ==
    [depth |-> depth, alpha |-> alpha, beta |-> beta,
     isMaximizingPlayer |-> isMaximizingPlayer,
     moves |-> <<>>, i |-> 0, best |-> 0, at |-> "enter"]

Top == stack[1]
Running == stack # <<>>

\* line 88: the terminal condition
IsLeaf(depth, b, c) == depth = 0 \/ IsGameOver(b, c)

\* the score of a terminal node with the negation forgotten
LeafValueNotNegated(b) == evaluateBoard(b)

\* line 89: the score of a terminal node
LeafValue(b) == -evaluateBoard(b)

\* no cutoff test: every move of a node is searched
CutoffNever(alpha, beta) == FALSE

\* the cutoff test with the comparison turned round
CutoffReversed(alpha, beta) == alpha <= beta

\* line 102 and line 113: the cutoff test
Cutoff(alpha, beta) == beta <= alpha

\* lines 88-90: depth exhausted or game over, return the negated evaluation
MinimaxLeaf ==
    /\ Running /\ Top.at = "enter"
    /\ IsLeaf(Top.depth, board, turn)
    /\ ret' = LeafValue(board)
    /\ stack' = Tail(stack)
    /\ UNCHANGED <<gameVars, rootVars, pc, result, ghostVars,
                   logVars, uiVars>>

\* lines 92-95 and 106: enumerate the moves and initialise maxEval or minEval
MinimaxExpand ==
    /\ Running /\ Top.at = "enter"
    /\ ~IsLeaf(Top.depth, board, turn)
    /\ stack' = <<[Top EXCEPT !.moves = LegalMoves(board, turn),
                              !.i = 1,
                              !.best = IF Top.isMaximizingPlayer
                                       THEN -Infinity ELSE Infinity,
                              !.at = "loop"]>> \o Tail(stack)
    /\ UNCHANGED <<gameVars, rootVars, pc, ret, result, ghostVars,
                   logVars, uiVars>>

\* lines 97-98 and 108-109: apply the next move and recurse
MinimaxApply ==
    /\ Running /\ Top.at = "loop" /\ Top.i <= Len(Top.moves)
    /\ LET move == Top.moves[Top.i] IN
         /\ history' = Append(history, HistoryEntry(board, move))
         /\ board' = ApplyMove(board, move)
         /\ turn' = Other(turn)
    /\ stack' = <<Frame(Top.depth - 1, Top.alpha, Top.beta,
                        ~Top.isMaximizingPlayer),
                  [Top EXCEPT !.at = "called"]>> \o Tail(stack)
    /\ nApplied' = nApplied + 1
    /\ nCalls' = nCalls + 1
    /\ UNCHANGED <<rootVars, pc, ret, result, board0, turn0, nPruned,
                   logVars, uiVars>>

\* minimax with game.undo() forgotten
MinimaxUndoSkipped ==
    /\ Running /\ Top.at = "called"
    /\ LET evalValue == ret
           best == IF Top.isMaximizingPlayer THEN Max(Top.best, evalValue)
                   ELSE Min(Top.best, evalValue)
           alpha == IF Top.isMaximizingPlayer THEN Max(Top.alpha, evalValue)
                    ELSE Top.alpha
           beta == IF Top.isMaximizingPlayer THEN Top.beta
                   ELSE Min(Top.beta, evalValue)
       IN /\ stack' = <<[Top EXCEPT !.best = best, !.alpha = alpha,
                                    !.beta = beta, !.i = Top.i + 1,
                                    !.at = IF Cutoff(alpha, beta) THEN "break"
                                           ELSE "loop"]>> \o Tail(stack)
          /\ nPruned' = IF Cutoff(alpha, beta)
                        THEN nPruned + (Len(Top.moves) - Top.i)
                        ELSE nPruned
    /\ UNCHANGED <<gameVars, rootVars, pc, ret, result, board0, turn0,
                   nApplied, nCalls, logVars, uiVars>>

\* lines 99-102 and 110-113: undo, fold the child's value in, test the cutoff
MinimaxUndo ==
    /\ Running /\ Top.at = "called"
    /\ board' = UndoMove(board, history[Len(history)])
    /\ turn' = Other(turn)
    /\ history' = SubSeq(history, 1, Len(history) - 1)
    /\ LET evalValue == ret
           best == IF Top.isMaximizingPlayer THEN Max(Top.best, evalValue)
                   ELSE Min(Top.best, evalValue)
           alpha == IF Top.isMaximizingPlayer THEN Max(Top.alpha, evalValue)
                    ELSE Top.alpha
           beta == IF Top.isMaximizingPlayer THEN Top.beta
                   ELSE Min(Top.beta, evalValue)
       IN /\ stack' = <<[Top EXCEPT !.best = best, !.alpha = alpha,
                                    !.beta = beta, !.i = Top.i + 1,
                                    !.at = IF Cutoff(alpha, beta) THEN "break"
                                           ELSE "loop"]>> \o Tail(stack)
          /\ nPruned' = IF Cutoff(alpha, beta)
                        THEN nPruned + (Len(Top.moves) - Top.i)
                        ELSE nPruned
    /\ UNCHANGED <<rootVars, pc, ret, result, board0, turn0, nApplied, nCalls,
                   logVars, uiVars>>

\* lines 104 and 115: the loop has ended or was broken, return maxEval or minEval
MinimaxReturn ==
    /\ Running
    /\ \/ Top.at = "break"
       \/ Top.at = "loop" /\ Top.i > Len(Top.moves)
    /\ ret' = Top.best
    /\ stack' = Tail(stack)
    /\ UNCHANGED <<gameVars, rootVars, pc, result, ghostVars,
                   logVars, uiVars>>

(***************************************************************************)
(* engine.ts: getBestMove                                                  *)
(***************************************************************************)
\* a random position that may fall one past the end of the array
RandomIndexOffByOne(length) == 1..(length + 1)

\* line 125: Math.floor(Math.random() * length), as a 1-based position
RandomIndex(length) == 1..length

\* possibleMoves[i], undefined outside the array
Element(moves, i) == IF i \in DOMAIN moves THEN moves[i] ELSE Undefined

\* line 132: sort with a random comparator leaves the moves in any order
Shuffles(moves) ==
    {[k \in 1..Len(moves) |-> moves[f[k]]] : f \in Permutations(1..Len(moves))}

\* line 159: bestMove || possibleMoves[0]
BestOrFirst(best, moves) == IF best # Null THEN best ELSE Element(moves, 1)

\* the early return forgotten: the empty loop falls through to line 159
GetBestMoveNoMovesFallThrough ==
    /\ pc = "call"
    /\ Len(LegalMoves(board, turn)) = 0
    /\ result' = BestOrFirst(Null, LegalMoves(board, turn))
    /\ pc' = "done"
    /\ UNCHANGED <<gameVars, rootVars, stack, ret, ghostVars,
                   logVars, uiVars>>

\* lines 120-121: no legal move, return null
GetBestMoveNoMoves ==
    /\ pc = "call"
    /\ Len(LegalMoves(board, turn)) = 0
    /\ result' = Null
    /\ pc' = "done"
    /\ UNCHANGED <<gameVars, rootVars, stack, ret, ghostVars,
                   logVars, uiVars>>

\* the random move without the test of the difficulty
GetBestMoveRandomAnyTier ==
    /\ pc = "call"
    /\ Len(LegalMoves(board, turn)) # 0
    /\ \E r \in RandomIndex(Len(LegalMoves(board, turn))) :
           result' = Element(LegalMoves(board, turn), r)
    /\ pc' = "done"
    /\ UNCHANGED <<gameVars, rootVars, stack, ret, ghostVars,
                   logVars, uiVars>>

\* lines 124-126: on the easy tier, with Math.random() < 0.3, a random move
GetBestMoveRandom ==
    /\ pc = "call"
    /\ Len(LegalMoves(board, turn)) # 0
    /\ difficulty = EASY
    /\ \E r \in RandomIndex(Len(LegalMoves(board, turn))) :
           result' = Element(LegalMoves(board, turn), r)
    /\ pc' = "done"
    /\ UNCHANGED <<gameVars, rootVars, stack, ret, ghostVars,
                   logVars, uiVars>>

\* lines 128-134: otherwise shuffle the moves and start the loop
GetBestMoveShuffle ==
    /\ pc = "call"
    /\ Len(LegalMoves(board, turn)) # 0
    /\ possibleMoves' \in Shuffles(LegalMoves(board, turn))
    /\ bestMove' = Null
    /\ bestValue' = -Infinity
    /\ idx' = 1
    /\ pc' = "loop"
    /\ UNCHANGED <<gameVars, difficulty, stack, ret, result, ghostVars,
                   logVars, uiVars>>

\* the root loop passing searchDepth itself to minimax
RootApplyFullDepth ==
    /\ pc = "loop" /\ idx <= Len(possibleMoves)
    /\ LET move == possibleMoves[idx]
           searchDepth == difficulty
       IN /\ history' = Append(history, HistoryEntry(board, move))
          /\ board' = ApplyMove(board, move)
          /\ turn' = Other(turn)
          /\ stack' = <<Frame(searchDepth, -100000, 100000, FALSE)>>
    /\ pc' = "called"
    /\ nApplied' = nApplied + 1
    /\ nCalls' = nCalls + 1
    /\ UNCHANGED <<rootVars, ret, result, board0, turn0, nPruned,
                   logVars, uiVars>>

\* lines 136-149: apply the next root move and search below it
RootApply ==
    /\ pc = "loop" /\ idx <= Len(possibleMoves)
    /\ LET move == possibleMoves[idx]
           searchDepth == difficulty
       IN /\ history' = Append(history, HistoryEntry(board, move))
          /\ board' = ApplyMove(board, move)
          /\ turn' = Other(turn)
          /\ stack' = <<Frame(searchDepth - 1, -100000, 100000, FALSE)>>
    /\ pc' = "called"
    /\ nApplied' = nApplied + 1
    /\ nCalls' = nCalls + 1
    /\ UNCHANGED <<rootVars, ret, result, board0, turn0, nPruned,
                   logVars, uiVars>>

\* the root loop with game.undo() forgotten
RootUndoSkipped ==
    /\ pc = "called" /\ ~Running
    /\ LET boardValue == ret IN
         IF boardValue > bestValue
         THEN bestValue' = boardValue /\ bestMove' = possibleMoves[idx]
         ELSE UNCHANGED <<bestValue, bestMove>>
    /\ idx' = idx + 1
    /\ pc' = "loop"
    /\ rootScores' = Append(rootScores, ret)
    /\ UNCHANGED <<gameVars, difficulty, possibleMoves, stack, ret, result,
                   ghostVars, scores, uiVars>>

\* the root loop keeping a move that is as good as the best so far
RootUndoNonStrict ==
    /\ pc = "called" /\ ~Running
    /\ board' = UndoMove(board, history[Len(history)])
    /\ turn' = Other(turn)
    /\ history' = SubSeq(history, 1, Len(history) - 1)
    /\ LET boardValue == ret IN
         IF boardValue >= bestValue
         THEN bestValue' = boardValue /\ bestMove' = possibleMoves[idx]
         ELSE UNCHANGED <<bestValue, bestMove>>
    /\ idx' = idx + 1
    /\ pc' = "loop"
    /\ rootScores' = Append(rootScores, ret)
    /\ UNCHANGED <<difficulty, possibleMoves, stack, ret, result, ghostVars,
                   scores, uiVars>>

\* lines 151-156: undo the root move and keep it if it is strictly better
RootUndo ==
    /\ pc = "called" /\ ~Running
    /\ board' = UndoMove(board, history[Len(history)])
    /\ turn' = Other(turn)
    /\ history' = SubSeq(history, 1, Len(history) - 1)
    /\ LET boardValue == ret IN
         IF boardValue > bestValue
         THEN bestValue' = boardValue /\ bestMove' = possibleMoves[idx]
         ELSE UNCHANGED <<bestValue, bestMove>>
    /\ idx' = idx + 1
    /\ pc' = "loop"
    /\ rootScores' = Append(rootScores, ret)
    /\ UNCHANGED <<difficulty, possibleMoves, stack, ret, result, ghostVars,
                   scores, uiVars>>

\* line 159: the loop is over
RootReturn ==
    /\ pc = "loop" /\ idx > Len(possibleMoves)
    /\ result' = BestOrFirst(bestMove, possibleMoves)
    /\ pc' = "done"
    /\ UNCHANGED <<gameVars, rootVars, stack, ret, ghostVars,
                   logVars, uiVars>>

(***************************************************************************)
(* Specification: one call getBestMove(game, difficulty)                   *)
(***************************************************************************)
\* no score has been logged, and no controller is running
NoLogs == rootScores = <<>> /\ scores = <<>>
NoController ==
    /\ games = <<>>
    /\ game = 0
    /\ isAiThinking = FALSE
    /\ selectedSquare = "null"
    /\ timers = {}
    /\ aiMoves = {}

InitOn(position, d) ==
    /\ board = position.board
    /\ turn = position.turn
    /\ history = <<>>
    /\ pc = "call"
    /\ difficulty = d
    /\ possibleMoves = <<>>
    /\ idx = 0
    /\ bestMove = Null
    /\ bestValue = 0
    /\ stack = <<>>
    /\ ret = 0
    /\ result = Null
    /\ board0 = board
    /\ turn0 = turn
    /\ nApplied = 0
    /\ nCalls = 0
    /\ nPruned = 0
    /\ NoLogs
    /\ NoController

InitCall(p, d) == InitOn(Positions[p], d)

Init == \E p \in 1..NumPositions : \E d \in Difficulty : InitCall(p, d)

Next ==
    \/ GetBestMoveNoMoves
    \/ GetBestMoveRandom
    \/ GetBestMoveShuffle
    \/ RootApply
    \/ RootUndo
    \/ RootReturn
    \/ MinimaxLeaf
    \/ MinimaxExpand
    \/ MinimaxApply
    \/ MinimaxUndo
    \/ MinimaxReturn

Spec == Init /\ [][Next]_vars

(***************************************************************************)
(* Specification: one call getBestMove(game, difficulty), on the positions *)
(* of Init or on the position with the most material                       *)
(***************************************************************************)
InitFullMaterial ==
    \/ Init
    \/ \E d \in Difficulty : InitOn([board |-> FullMaterial, turn |-> "b"], d)

SpecFullMaterial == InitFullMaterial /\ [][Next]_vars

(***************************************************************************)
(* Specification: getBestMove called with a depth that is not positive.    *)
(* The recursion is followed for MaxPly plies.                             *)
(***************************************************************************)
MaxPly == 3
NonPositive == {-1, 0}

InitAnyDepth ==
    \E p \in 1..NumPositions : \E d \in NonPositive : InitCall(p, d)

MinimaxApplyWithin == Len(history) < MaxPly /\ MinimaxApply

NextAnyDepth ==
    \/ GetBestMoveNoMoves
    \/ GetBestMoveShuffle
    \/ RootApply
    \/ RootUndo
    \/ RootReturn
    \/ MinimaxLeaf
    \/ MinimaxExpand
    \/ MinimaxApplyWithin
    \/ MinimaxUndo
    \/ MinimaxReturn

SpecAnyDepth == InitAnyDepth /\ [][NextAnyDepth]_vars

(***************************************************************************)
(* Specification: a rules-engine call or the evaluator may raise an error  *)
(* while a move is applied.  engine.ts has no try, catch or finally: the   *)
(* error leaves minimax and getBestMove at once.                           *)
(***************************************************************************)
Throw ==
    /\ pc = "called"
    /\ pc' = "threw"
    /\ stack' = <<>>
    /\ UNCHANGED <<gameVars, rootVars, ret, result, ghostVars,
                   logVars, uiVars>>

NextErr == Next \/ Throw

SpecErr == Init /\ [][NextErr]_vars

(***************************************************************************)
(* Specification: one call minimax(game, depth, alpha, beta, isMax), with  *)
(* the depth argument kept in difficulty                                   *)
(***************************************************************************)
MaxDepth == 2
Windows == {-100000, -130, 0, 130, 100000}

InitMinimax ==
    \E p \in 1..NumPositions : \E depth \in 0..MaxDepth :
    \E alpha \in Windows : \E beta \in Windows : \E isMax \in BOOLEAN :
        /\ board = Positions[p].board
        /\ turn = Positions[p].turn
        /\ history = <<>>
        /\ pc = "minimax"
        /\ difficulty = depth
        /\ possibleMoves = <<>>
        /\ idx = 0
        /\ bestMove = Null
        /\ bestValue = 0
        /\ stack = <<Frame(depth, alpha, beta, isMax)>>
        /\ ret = 0
        /\ result = Null
        /\ board0 = board
        /\ turn0 = turn
        /\ nApplied = 0
        /\ nCalls = 1
        /\ nPruned = 0
    /\ NoLogs
    /\ NoController

NextMinimax ==
    \/ MinimaxLeaf
    \/ MinimaxExpand
    \/ MinimaxApply
    \/ MinimaxUndo
    \/ MinimaxReturn

SpecMinimax == InitMinimax /\ [][NextMinimax]_vars

(***************************************************************************)
(* Specification: evaluateBoard on boards of up to MaxPieces pieces, of    *)
(* any type and colour, on a sample of squares of five rows, over the     *)
(* files a to d (the tables read the same from either side).               *)
(***************************************************************************)
MaxPieces == 2
EvalSquares ==
    {At(4, 7), At(3, 6), At(4, 4), At(2, 3), At(4, 2)}

InitEval ==
    /\ board = EmptyBoard
    /\ turn = "w"
    /\ history = <<>>
    /\ pc = "board"
    /\ difficulty = EASY
    /\ possibleMoves = <<>>
    /\ idx = 0
    /\ bestMove = Null
    /\ bestValue = 0
    /\ stack = <<>>
    /\ ret = 0
    /\ result = Null
    /\ board0 = board
    /\ turn0 = turn
    /\ nApplied = 0
    /\ nCalls = 0
    /\ nPruned = 0
    /\ NoLogs
    /\ NoController

\* one more piece on the board under evaluation, the squares filled in
\* index order
PutPiece ==
    /\ pc = "board"
    /\ Cardinality({s \in Squares : board[s] # Empty}) < MaxPieces
    /\ \E s \in EvalSquares : \E t \in PieceType : \E c \in PieceColor :
          /\ \A q \in EvalSquares : q >= s => board[q] = Empty
          /\ board' = [board EXCEPT ![s] = Piece(t, c)]
    /\ UNCHANGED <<turn, history, pc, rootVars, stack, ret, result, ghostVars,
                   logVars, uiVars>>

\* evaluateBoard with totalEvaluation kept between the calls
EvaluateAccumulating ==
    /\ pc \in {"board", "evaluated"} /\ Len(scores) < 2
    /\ ret' = ret + evaluateBoard(board)
    /\ scores' = Append(scores, ret')
    /\ pc' = "evaluated"
    /\ UNCHANGED <<gameVars, rootVars, stack, result, ghostVars, rootScores,
                   uiVars>>

\* evaluateBoard(game), called once and then once more on the same position
Evaluate ==
    /\ pc \in {"board", "evaluated"} /\ Len(scores) < 2
    /\ ret' = evaluateBoard(board)
    /\ scores' = Append(scores, ret')
    /\ pc' = "evaluated"
    /\ UNCHANGED <<gameVars, rootVars, stack, result, ghostVars, rootScores,
                   uiVars>>

NextEval == PutPiece \/ Evaluate

SpecEval == InitEval /\ [][NextEval]_vars

(***************************************************************************)
(* The controller (index.tsx, kept as unnamed/part_001): one Chess         *)
(* instance in let game, the human's clicks, the Reset button, the         *)
(* difficulty buttons and the callback that makeMove defers by 500 ms.     *)
(* The controller reads of a Chess instance its side to move and           *)
(* isGameOver(); an instance is kept as these two and the number of moves  *)
(* made on it.  A game is over after MaxMoves moves at the latest, and it  *)
(* may be over after any move.  getBestMove runs inside makeAiMove from    *)
(* call to return and leaves the instance as it found it.                  *)
(***************************************************************************)
MaxMoves == 3
MaxGames == 2

\* new Chess(), new Chess(INITIAL_FEN)
NewChess == [turn |-> "w", moves |-> 0, over |-> FALSE]

\* game.move(...) on the instance g; over: the move ends the game
AfterMove(g, over) ==
    [turn |-> Other(g.turn), moves |-> g.moves + 1,
     over |-> (over \/ g.moves + 1 >= MaxMoves)]

\* the squares a click can fall on
Square == {"e2", "e4"}

\* the engine is not running
NoEngine ==
    /\ board = EmptyBoard
    /\ turn = "w"
    /\ history = <<>>
    /\ pc = "idle"
    /\ possibleMoves = <<>>
    /\ idx = 0
    /\ bestMove = Null
    /\ bestValue = 0
    /\ stack = <<>>
    /\ ret = 0
    /\ result = Null
    /\ board0 = board
    /\ turn0 = turn
    /\ nApplied = 0
    /\ nCalls = 0
    /\ nPruned = 0
    /\ NoLogs

engineVars ==
    <<gameVars, pc, possibleMoves, idx, bestMove, bestValue, stack, ret,
      result, ghostVars, logVars>>

\* lines 8-14
InitController ==
    /\ NoEngine
    /\ difficulty = MEDIUM
    /\ games = <<NewChess>>
    /\ game = 1
    /\ isAiThinking = FALSE
    /\ selectedSquare = "null"
    /\ timers = {}
    /\ aiMoves = {}

\* lines 47-63
setDifficulty(level) ==
    /\ difficulty' = level
    /\ UNCHANGED <<engineVars, uiVars>>

\* lines 104-132: the move is made; unless it ends the game the lock is set
\* and makeAiMove is deferred.  The callback is kept with the instance and
\* the move it answers.
makeMove ==
    \E over \in BOOLEAN :
        LET g == AfterMove(games[game], over) IN
        /\ games' = [games EXCEPT ![game] = g]
        /\ IF ~g.over
           THEN /\ isAiThinking' = TRUE
                /\ timers' = timers \cup {[of |-> game, move |-> g.moves]}
           ELSE UNCHANGED <<isAiThinking, timers>>

\* the click handler without the test of isAiThinking
handleSquareClickUnlocked(square) ==
    /\ IF games[game].over
       THEN UNCHANGED uiVars
       ELSE IF selectedSquare = square
       THEN /\ selectedSquare' = "null"
            /\ UNCHANGED <<games, game, isAiThinking, timers, aiMoves>>
       ELSE \E moveAttempt \in BOOLEAN : \E ownPiece \in BOOLEAN :
            IF moveAttempt /\ selectedSquare # "null"
            THEN /\ makeMove
                 /\ selectedSquare' = "null"
                 /\ UNCHANGED <<game, aiMoves>>
            ELSE /\ selectedSquare' = IF ownPiece THEN square ELSE "null"
                 /\ UNCHANGED <<games, game, isAiThinking, timers, aiMoves>>
    /\ UNCHANGED <<engineVars, difficulty>>

\* lines 67-97: moveAttempt, a legal move from the selected square to the
\* clicked one exists; ownPiece, the clicked square holds a piece of the
\* side to move
handleSquareClick(square) ==
    /\ IF games[game].over \/ isAiThinking
       THEN UNCHANGED uiVars
       ELSE IF selectedSquare = square
       THEN /\ selectedSquare' = "null"
            /\ UNCHANGED <<games, game, isAiThinking, timers, aiMoves>>
       ELSE \E moveAttempt \in BOOLEAN : \E ownPiece \in BOOLEAN :
            IF moveAttempt /\ selectedSquare # "null"
            THEN /\ makeMove
                 /\ selectedSquare' = "null"
                 /\ UNCHANGED <<game, aiMoves>>
            ELSE /\ selectedSquare' = IF ownPiece THEN square ELSE "null"
                 /\ UNCHANGED <<games, game, isAiThinking, timers, aiMoves>>
    /\ UNCHANGED <<engineVars, difficulty>>

\* lines 134-154, run by the timer of line 124: on a game that is over it
\* returns at once; otherwise it plays the move of getBestMove on the
\* instance in let game and clears the lock
makeAiMove ==
    \E t \in timers :
        /\ timers' = timers \ {t}
        /\ IF games[game].over
           THEN UNCHANGED <<games, isAiThinking, aiMoves>>
           ELSE \E over \in BOOLEAN :
                LET g == AfterMove(games[game], over) IN
                /\ games' = [games EXCEPT ![game] = g]
                /\ aiMoves' = aiMoves \cup
                       {[game |-> game, color |-> games[game].turn,
                         ply |-> g.moves, of |-> t.of, move |-> t.move]}
                /\ isAiThinking' = FALSE
        /\ UNCHANGED <<engineVars, difficulty, game, selectedSquare>>

\* lines 163-170: a new instance; the lock and the timer stay as they are
resetGame ==
    /\ Len(games) < MaxGames
    /\ games' = Append(games, NewChess)
    /\ game' = Len(games) + 1
    /\ selectedSquare' = "null"
    /\ UNCHANGED <<engineVars, difficulty, isAiThinking, timers, aiMoves>>

NextController ==
    \/ \E square \in Square : handleSquareClick(square)
    \/ \E level \in Difficulty : setDifficulty(level)
    \/ makeAiMove
    \/ resetGame

\* a callback of setTimeout is run in the end
SpecController ==
    InitController /\ [][NextController]_vars /\ WF_vars(makeAiMove)

(***************************************************************************)
(* Reference definitions for the properties                                *)
(***************************************************************************)
SetMax(S) == CHOOSE x \in S : \A y \in S : x >= y
SetMin(S) == CHOOSE x \in S : \A y \in S : x <= y

\* the position at call time
Legal0 == MoveSet(board0, turn0)
Restored == board = board0 /\ turn = turn0 /\ history = <<>>
Returned == pc = "done"
Searched == pc = "done" /\ nCalls > 0

\* minimax of engine.ts without the two cutoff tests: every move is searched
RECURSIVE Unpruned(_, _, _, _)
Unpruned(b, c, depth, isMax) ==
    IF depth = 0 \/ IsGameOver(b, c) THEN -evaluateBoard(b)
    ELSE LET values == {Unpruned(ApplyMove(b, m), Other(c), depth - 1, ~isMax) :
                           m \in MoveSet(b, c)}
         IN IF isMax THEN SetMax(values) ELSE SetMin(values)

\* the exhaustive score of the root move m of the call
UnprunedScore(m) ==
    Unpruned(ApplyMove(board0, m), Other(turn0), difficulty - 1, FALSE)

\* the first move of the shuffled list whose exhaustive score is the greatest
FirstBestUnpruned ==
    LET top == SetMax({UnprunedScore(possibleMoves[k]) : k \in DOMAIN possibleMoves})
        k == SetMin({j \in DOMAIN possibleMoves :
                        UnprunedScore(possibleMoves[j]) = top})
    IN possibleMoves[k]

\* the greatest boardValue so far and the first root move that scored it
TopScore == SetMax({rootScores[k] : k \in DOMAIN rootScores})
FirstTop == SetMin({k \in DOMAIN rootScores : rootScores[k] = TopScore})

\* a score strictly inside the window of line 149
InWindow(x) == -100000 < x /\ x < 100000

\* the activation record j places above the outermost one
FromBottom(s, j) == s[Len(s) - j + 1]

\* the evaluation as a sum over the set of occupied squares: material value
\* plus table bonus, counted for White and against Black
Material(t) ==
    CASE t = "p" -> 100 [] t = "n" -> 320 [] t = "b" -> 330
      [] t = "r" -> 500 [] t = "q" -> 900 [] t = "k" -> 20000

Bonus(piece, row, col) ==
    LET at == IF piece.color = "w" THEN row * 8 + col ELSE (7 - row) * 8 + col
    IN CASE piece.type = "p" -> PAWN_PST[at + 1]
         [] piece.type = "n" -> KNIGHT_PST[at + 1]
         [] piece.type = "b" -> BISHOP_PST[at + 1]
         [] OTHER -> 0

RECURSIVE SumOver(_, _)
SumOver(b, S) ==
    IF S = {} THEN 0
    ELSE LET s == CHOOSE x \in S : TRUE
             sign == IF b[s].color = "w" THEN 1 ELSE -1
         IN sign * (Material(b[s].type) + Bonus(b[s], s \div 8, s % 8))
              + SumOver(b, S \ {s})

ReferenceScore(b) == SumOver(b, {s \in Squares : b[s] # Empty})

\* depth-limited minimax of the evaluation: White maximises, Black minimises
RECURSIVE TrueMinimax(_, _, _)
TrueMinimax(b, c, depth) ==
    IF depth = 0 \/ IsGameOver(b, c) THEN evaluateBoard(b)
    ELSE LET values == {TrueMinimax(ApplyMove(b, m), Other(c), depth - 1) :
                           m \in MoveSet(b, c)}
         IN IF c = "w" THEN SetMax(values) ELSE SetMin(values)

\* the outcome of root move m as the side to move at call time counts it
MoverScore(m) ==
    LET v == TrueMinimax(ApplyMove(board0, m), Other(turn0), difficulty - 1)
    IN IF turn0 = "w" THEN v ELSE -v

\* root move m checkmates the opponent
Mates(m) == IsCheckmate(ApplyMove(board0, m), Other(turn0))

(***************************************************************************)
(* Properties                                                              *)
(***************************************************************************)

\* C1: when getBestMove returns, on any of its three branches, the position
\* is the position at call time: squares, side to move and undo stack, and
\* so the legal moves and the evaluation.
C1_StateRestoration ==
    Returned =>
        /\ Restored
        /\ MoveSet(board, turn) = Legal0
        /\ evaluateBoard(board) = evaluateBoard(board0)

\* a hard search that applied moves below the root has returned
C1_Witness ==
    /\ Returned /\ difficulty = HARD
    /\ nApplied > Len(possibleMoves) /\ Len(possibleMoves) > 1

\* C2: every move getBestMove returns, other than null, is a legal move of
\* the position at call time.
C2_LegalMove == (Returned /\ result # Null) => result \in Legal0

\* the easy tier has returned a random move without searching
C2_Witness ==
    /\ Returned /\ difficulty = EASY /\ nCalls = 0
    /\ result # Null /\ Cardinality(Legal0) > 1

\* C3: the move a search returns has a depth-limited minimax outcome that no
\* other legal move beats, as the side to move counts it.
C3_BestForMover ==
    Searched => \A m \in Legal0 : MoverScore(result) >= MoverScore(m)

\* C4: when the side to move can give checkmate in one move, the move a
\* search returns gives checkmate.
C4_MateInOne ==
    (Searched /\ \E m \in Legal0 : Mates(m)) => Mates(result)

\* C5: the score the pruned search gives each root move is the score of the
\* exhaustive search of the same depth, and the move returned is the one the
\* exhaustive scores select in the same root order.
C5_PruningEquivalence ==
    /\ (pc = "called" /\ ~Running) =>
           ret = Unpruned(board, turn, difficulty - 1, FALSE)
    /\ Searched => result = FirstBestUnpruned

\* a search in which cutoffs left moves unsearched has returned
C5_Witness == Searched /\ nPruned > 0 /\ Len(possibleMoves) > 1

\* C6: with a depth of 0 or below, getBestMove looks one ply deep: never is
\* more than the root move applied.
C6_OnePlyAtNonPositiveDepth == difficulty <= 0 => Len(history) <= 1

\* C7: getBestMove returns null exactly when the position at call time has
\* no legal move, and then it has applied no move and called no search.
C7_NullIffNoMoves ==
    Returned =>
        /\ (result = Null) <=> (Legal0 = {})
        /\ (Legal0 = {}) => (nApplied = 0 /\ nCalls = 0)

\* null was returned for a position without legal moves
C7_Witness == Returned /\ result = Null /\ Legal0 = {} /\ ~InCheck(board0, turn0)

\* C8: when an error leaves getBestMove while a move is applied, the position
\* is the position at call time.
C8_RestoredOnError == pc = "threw" => Restored

\* C9: the board with colours swapped and rows flipped evaluates to the
\* negation of the board's evaluation.
C9_EvaluationSymmetry ==
    pc \in {"board", "evaluated"} =>
        LET mirrored == evaluateBoard(Mirror(board))
        IN /\ mirrored = -evaluateBoard(board)
           /\ pc = "evaluated" => mirrored = -ret

\* a black pawn one step from promotion, worth 100 + 50 to Black, and a white
\* knight in the centre, worth 320 + 20 to White, were evaluated
C9_Witness ==
    /\ pc = "evaluated" /\ ret = 190
    /\ board[At(4, 2)] = Piece("p", "b")
    /\ board[At(4, 4)] = Piece("n", "w")

\* C10: a minimax call with depth 0, or on a game-over position, returns the
\* negated evaluation of the position, and applies no move.
C10_LeafEquivalence ==
    [][(Running /\ Top.at = "enter"
          /\ (Top.depth = 0 \/ IsGameOver(board, turn)))
        => /\ ret' = -evaluateBoard(board)
           /\ stack' = Tail(stack)
           /\ UNCHANGED <<gameVars, nApplied>>]_vars

\* minimax, called with a positive depth on a game-over position, has
\* returned a score without applying a move
C10_Witness ==
    /\ pc = "minimax" /\ ~Running /\ difficulty > 0
    /\ nApplied = 0 /\ ret # 0 /\ ret = -evaluateBoard(board)

\* C11: evaluateBoard returns the sum, over the occupied squares, of material
\* value plus table bonus (none for rook, queen and king), counted for White
\* and against Black, the table read at row*8+col for White and at
\* (7-row)*8+col for Black; an empty square adds nothing.
C11_ReferenceSum ==
    LET reference == ReferenceScore(board)
    IN /\ evaluateBoard(board) = reference
       /\ pc = "evaluated" => ret = reference

\* a black bishop on c6, worth 330 + 10 to Black, and a white rook on d7,
\* worth 500 to White, were evaluated
C11_Witness ==
    /\ pc = "evaluated" /\ ret = 160
    /\ board[At(3, 6)] = Piece("b", "b")
    /\ board[At(4, 7)] = Piece("r", "w")

C13_DepthIsPlyCount ==
    /\ Len(history) <= difficulty
    /\ (Running /\ Top.at = "enter" /\ IsLeaf(Top.depth, board, turn)
          /\ ~IsGameOver(board, turn)) => Len(history) = difficulty

\* a hard search is about to evaluate a leaf three plies down
C13_Witness ==
    /\ Running /\ Top.at = "enter" /\ Top.depth = 0
    /\ ~IsGameOver(board, turn)
    /\ difficulty = HARD /\ Len(history) = 3

\* C14: a move returned without a search is returned on the easy tier only,
\* with no move applied; on the medium and hard tiers the move returned is
\* a root move whose searched score is the greatest of the root scores.
C14_RandomOnlyOnEasy ==
    /\ (Returned /\ result # Null /\ nCalls = 0) =>
           (difficulty = EASY /\ nApplied = 0 /\ rootScores = <<>>)
    /\ (Returned /\ result # Null /\ difficulty \in {MEDIUM, HARD}) =>
           /\ Len(rootScores) = Cardinality(Legal0)
           /\ \E k \in DOMAIN rootScores :
                 possibleMoves[k] = result /\ rootScores[k] = TopScore

\* a medium search over root moves of different scores has returned
C14_Witness ==
    /\ Returned /\ difficulty = MEDIUM /\ result # Null
    /\ \E k \in DOMAIN rootScores : rootScores[k] < TopScore

\* C15: once a root move is scored, bestMove is the first move of the
\* shuffled order whose score is the greatest so far, and that move is the
\* one returned: a later move of equal score does not replace it.
C15_FirstMaximum ==
    /\ (rootScores # <<>> /\ pc \in {"loop", "called", "done"}) =>
           (bestValue = TopScore /\ bestMove = possibleMoves[FirstTop])
    /\ Searched => result = possibleMoves[FirstTop]

\* a search has returned the first of two root moves of the greatest score
C15_Witness ==
    /\ Searched
    /\ \E k \in DOMAIN rootScores :
          k > FirstTop /\ rootScores[k] = TopScore /\ result # possibleMoves[k]

\* C16: in a minimax node, a further move is applied only while beta <= alpha
\* does not hold after the last child; the cutoff is taken in the step that
\* has undone the child's move, and after it the node only returns its best
\* value.  The alpha and beta of every other node stay as they are, and each
\* root move is searched with the window -100000..100000.
C16_CutoffPrunes ==
    [][/\ (Running /\ Len(stack') = Len(stack) + 1) =>
              (Top.i = 1 \/ ~(Top.beta <= Top.alpha))
       /\ (Running /\ Top.at = "called" /\ Top'.beta <= Top'.alpha) =>
              /\ Len(history') = Len(history) - 1
              /\ Top'.at = "break" /\ nApplied' = nApplied
       /\ (Running /\ Top.at = "break") =>
              /\ stack' = Tail(stack) /\ ret' = Top.best
              /\ UNCHANGED <<gameVars, nApplied, nCalls>>
       /\ \A j \in 1..Len(stack) :
              (j < Len(stack) /\ j <= Len(stack')) =>
                  FromBottom(stack', j) = FromBottom(stack, j)
       /\ (pc = "loop" /\ pc' = "called") =>
              (Top'.alpha = -100000 /\ Top'.beta = 100000)]_vars

\* a node below another node has cut off with moves left unsearched
C16_Witness ==
    /\ Len(stack) > 1 /\ Top.at = "break"
    /\ Top.i <= Len(Top.moves) /\ Top.beta <= Top.alpha

\* C17: the evaluation of every position of a search, every value minimax
\* returns or holds as its best once a child is scored, and every root score
\* lie strictly between -100000 and 100000; once a root move is scored,
\* bestValue is such a score and bestMove is a move.
C17_ScoresInsideWindow ==
    /\ InWindow(evaluateBoard(board))
    /\ InWindow(ret)
    /\ \A k \in DOMAIN rootScores : InWindow(rootScores[k])
    /\ \A j \in DOMAIN stack : stack[j].i > 1 => InWindow(stack[j].best)
    /\ rootScores # <<>> => (InWindow(bestValue) /\ bestMove # Null)

\* a hard search of the position with the most material has returned
C17_Witness ==
    /\ Searched /\ difficulty = HARD /\ board0 = FullMaterial
    /\ bestValue < -10000 /\ evaluateBoard(board) > 10000

\* C18: every move the engine applies is, at the moment it is applied, a
\* legal move of the position it is applied to, and the position after it
\* is the position that move leads to.
C18_AppliesOnlyLegalMoves ==
    [][Len(history') > Len(history) =>
          LET move == history'[Len(history')].move
          IN /\ move \in MoveSet(board, turn)
             /\ board' = ApplyMove(board, move)
             /\ turn' = Other(turn)
             /\ nApplied' = nApplied + 1]_vars

\* a capture was applied two plies below the position at call time, after
\* other moves had been applied and taken back
C18_Witness ==
    /\ Len(history) = 2 /\ history[2].captured # Empty
    /\ nApplied > 3 /\ pc = "called"

\* C19: every move a deferred callback makes is a move of Black, made on
\* the instance the human moved on and as the move right after the human's
\* move it answers, and no two of them answer the same human move.
C19_StrictAlternation ==
    /\ \A a \in aiMoves :
          a.color = "b" /\ a.game = a.of /\ a.ply = a.move + 1
    /\ \A a, b \in aiMoves : (a.of = b.of /\ a.move = b.move) => a = b

\* C20: while isAiThinking is set, a step that neither runs the callback nor
\* resets the game changes no instance and not the selection; whenever the
\* lock is set a callback is pending and the game in let game is not over,
\* so that the callback does not return early; and the lock set is in the
\* end cleared.
C20_ThinkingLock ==
    /\ [][(isAiThinking /\ timers' = timers /\ game' = game) =>
             UNCHANGED <<games, selectedSquare>>]_vars
    /\ [](isAiThinking => (timers # {} /\ ~games[game].over))
    /\ (isAiThinking ~> ~isAiThinking)

\* the lock was set, the game was reset during the delay, and the callback
\* has cleared the lock
C20_Witness ==
    /\ ~isAiThinking /\ timers = {}
    /\ \E a \in aiMoves : a.game # a.of

====
